---- MODULE Spec2Model ----
(***************************************************************************)
(* Model of the TextBox widget of kayak_ui (src/widgets/text_box.rs).      *)
(*                                                                         *)
(* A String is modelled as Rust stores it: a sequence of UTF-8 code units  *)
(* (bytes).  A char is modelled by its code point.  The event handler is   *)
(* the closure built by a render pass; it captures current_value by move,  *)
(* so every render pass builds a new closure around a new current_value.   *)
(***************************************************************************)
EXTENDS Integers, Sequences, FiniteSets, TLC

\* ------------------------------------------------------------------ bounds
\* Longest EditableValue, in code units, that the model lets an append reach.
MaxLen == 3
\* Longest log of ChangeEvents the model keeps.
MaxEvents == 3

\* ------------------------------------------------------------- characters
BS == 8
DEL == 127
LF == 10
LatinH == 104
LatinEAcute == 233

\* The characters a CharInput event carries in the model: the two backspace
\* signals, a control character, a one-byte and a two-byte printable.
CharSet == {BS, DEL, LF, LatinH, LatinEAcute}

None == <<>>
Some(x) == <<x>>

\* -------------------------------------------------- std::string, std::char
\* char::is_control: general category Cc.
is_control(c) == c <= 31 \/ (c >= 127 /\ c <= 159)

\* fn is_backspace(c: char) -> bool
is_backspace(c) == c = 8 \/ c = 127

\* char::encode_utf8, for code points below 0x10000.
encode_utf8(c) ==
    IF c < 128 THEN <<c>>
    ELSE IF c < 2048 THEN <<192 + (c \div 64), 128 + (c % 64)>>
    ELSE <<224 + (c \div 4096), 128 + ((c \div 64) % 64), 128 + (c % 64)>>

\* Width, in code units, of the encoded character whose first unit is b.
utf8_char_width(b) ==
    IF b < 128 THEN 1 ELSE IF b < 224 THEN 2 ELSE 3

\* The code point encoded by the code units u (one whole character).
decode_utf8(u) ==
    IF Len(u) = 1 THEN u[1]
    ELSE IF Len(u) = 2 THEN (u[1] - 192) * 64 + (u[2] - 128)
    ELSE (u[1] - 224) * 4096 + (u[2] - 128) * 64 + (u[3] - 128)

\* str::is_char_boundary: index 0, the length, or a unit that is not a
\* continuation byte (10xxxxxx).
is_char_boundary(s, idx) ==
    \/ idx = 0
    \/ idx = Len(s)
    \/ (idx > 0 /\ idx < Len(s) /\ (s[idx + 1] < 128 \/ s[idx + 1] >= 192))

\* Whether s is a sequence of whole encoded characters.
RECURSIVE is_utf8(_)
is_utf8(s) ==
    IF s = <<>> THEN TRUE
    ELSE LET n == utf8_char_width(s[1]) IN
         /\ s[1] < 128 \/ s[1] >= 192
         /\ n <= Len(s)
         /\ \A i \in 2..n : s[i] >= 128 /\ s[i] < 192
         /\ is_utf8(SubSeq(s, n + 1, Len(s)))

\* str::chars: the characters of a valid string, in order.
RECURSIVE chars(_)
chars(s) ==
    IF s = <<>> THEN <<>>
    ELSE LET n == utf8_char_width(s[1]) IN
         <<decode_utf8(SubSeq(s, 1, n))>> \o chars(SubSeq(s, n + 1, Len(s)))

push_front(s, c) == encode_utf8(c) \o s

\* String::push
push(s, c) == s \o encode_utf8(c)

\* String::truncate(new_len) panics unless new_len is a char boundary.
truncate_panics(s, new_len) == new_len <= Len(s) /\ ~is_char_boundary(s, new_len)

\* String::truncate(new_len), when it does not panic.
truncate(s, new_len) == IF new_len <= Len(s) THEN SubSeq(s, 1, new_len) ELSE s

\* ------------------------------------------------------------------- state
VARIABLES
    props,      \* TextBoxProps handed to the latest render pass
    env,        \* what the framework context answers: parent, layout, font
    has_focus,  \* the Focus state cell (Focus(false) until first written)
    on_event,   \* props.on_event: None, or the closure and its captured String
    delivered,  \* the ChangeEvents the on_change callback has been called with
    tree,       \* the render tree of the latest completed pass, None before it
    crashed,    \* a panic has unwound the handler or the render pass
    last,       \* the operation that produced this state
    lock,       \* the RwLock around the on_change callback
    bound,      \* the bindings the latest pass subscribed the widget to
    dirty       \* the framework has a render pass of the widget scheduled

vars ==
    <<props, env, has_focus, on_event, delivered, tree, crashed, last,
      lock, bound, dirty>>

\* Values of the `value` prop at instantiation.
InitialValues == {<<>>, encode_utf8(LatinH)}

\* Values of the `placeholder` prop.
Placeholders == {None, Some(<<112>>)}

\* Values of the `on_change` prop: absent, or a registered callback.
OnChanges == {None, Some("callback")}

\* A Style, reduced to the fields the widget sets; "Unset" marks a field
\* that `..Default::default()` leaves alone.
Style_default ==
    [render_command |-> "Unset", top |-> "Unset", bottom |-> "Unset",
     height |-> "Unset", cursor |-> "Unset"]

\* Styles a caller can pass in the `styles` prop.
CallerStyles ==
    [render_command : {"Unset", "Quad"}, top : {"Unset", "Pixels(4)"},
     bottom : {"Unset", "Pixels(4)"}, height : {"Unset", "Pixels(50)"},
     cursor : {"Unset", "Hand"}]

\* The props of the editing scenarios: no caller style, `focusable` unset.
PropsSet ==
    [disabled : BOOLEAN, value : InitialValues, on_change : OnChanges,
     placeholder : Placeholders, styles : {None}, focusable : {None}]

\* The props of the prop-surface scenarios: every caller style and every
\* `focusable`, with nothing to edit.
SurfacePropsSet ==
    [disabled : BOOLEAN, value : {<<>>}, on_change : {None},
     placeholder : {None}, styles : {None} \cup {Some(st) : st \in CallerStyles},
     focusable : {None, Some(FALSE), Some(TRUE)}]

\* The layout of the parent as the framework reports it.
ParentLayout == [width |-> 100, height |-> 26]

\* parent_id, context.get_valid_parent, context.get_layout and font.get():
\* each an Option; a later one is only asked for when the earlier is Some.
EnvSet ==
    { e \in [parent_id : {None, Some(1)}, valid_parent : {None, Some(1)},
             layout : {None, Some(ParentLayout)}, font : {None, Some("Roboto")}] :
        /\ e.parent_id = None => e.valid_parent = None
        /\ e.valid_parent = None => e.layout = None }

\* The String the current handler closure owns (EditableValue).
current_value == on_event[1].current_value

\* ------------------------------------------------------------ prop surface
get_focusable_always(p) == Some(TRUE)

\* TextBoxProps::get_focusable
get_focusable(p) == Some(~p.disabled)

\* The framework hands input (focus, characters) only to a widget whose
\* focusable flag is set.
dispatches_input(p) == get_focusable(p) = Some(TRUE)

\* Style::with_style: take from `other` the fields still unset in `self`.
with_style(self, other) ==
    IF other = None THEN self
    ELSE [f \in DOMAIN self |->
            IF self[f] = "Unset" THEN other[1][f] ELSE self[f]]

\* Lines 89-92: the required styles.
RequiredStyles == [Style_default EXCEPT !.render_command = "Layout"]

\* Lines 96-102: the styles applied "if not set by props".
FallbackStyles ==
    [Style_default EXCEPT !.top = "Pixels(0)", !.bottom = "Pixels(0)",
                          !.height = "Pixels(26)", !.cursor = "Text"]

styles_cascade_fallback_first(styles) ==
    with_style(with_style(with_style(Style_default, Some(RequiredStyles)),
                          Some(FallbackStyles)),
               styles)

\* Lines 86-103: the style the pass stores in props.styles.
styles_cascade(styles) ==
    with_style(with_style(with_style(Style_default, Some(RequiredStyles)),
                          styles),
               Some(FallbackStyles))

\* The UI thread can take its next turn: no panic, and no handler stuck
\* in on_change.0.write().
running == ~crashed /\ lock # "waiting"

\* --------------------------------------------------------- event handler
\* Lines 125-131: the edit a focused CharInput makes to current_value.
edit(value, c) ==
    IF is_backspace(c)
    THEN IF value # <<>> THEN truncate(value, Len(value) - 1) ELSE value
    ELSE IF ~is_control(c) THEN push(value, c) ELSE value

\* Line 127: truncate(len - 1) panics when len - 1 is not a char boundary.
edit_panics(value, c) ==
    is_backspace(c) /\ value # <<>> /\ truncate_panics(value, Len(value) - 1)

\* Lines 122-124: the handler returns early unless the widget has focus.
focus_guard_missing(focus) == FALSE

focus_guard(focus) == ~focus

notify_unless_empty(on_change, log, value) ==
    IF on_change # None /\ value # <<>>
    THEN Append(log, [value |-> value]) ELSE log

\* Lines 132-138: call on_change, if registered, with a fresh ChangeEvent.
notify(on_change, log, value) ==
    IF on_change # None THEN Append(log, [value |-> value]) ELSE log

\* EventType::CharInput { c }
CharInput(c) ==
    /\ running
    /\ on_event # None
    /\ IF ~dispatches_input(props)
       THEN \* the framework withholds the event from the handler
            /\ last' = [op |-> "CharInputWithheld", c |-> c]
            /\ UNCHANGED <<on_event, delivered, crashed, lock>>
       ELSE /\ last' = [op |-> "CharInput", c |-> c]
            /\ IF focus_guard(has_focus)
               THEN UNCHANGED <<on_event, delivered, crashed, lock>>
               ELSE IF edit_panics(current_value, c)
               THEN /\ crashed' = TRUE
                    /\ UNCHANGED <<on_event, delivered, lock>>
               ELSE /\ Len(edit(current_value, c)) <= MaxLen
                    /\ Len(notify(props.on_change, delivered, <<>>))
                          <= MaxEvents
                    /\ on_event' =
                         Some([current_value |-> edit(current_value, c)])
                    /\ IF props.on_change # None /\ lock = "held"
                       THEN \* line 133: write() waits for the other holder
                            /\ lock' = "waiting"
                            /\ UNCHANGED delivered
                       ELSE /\ delivered' =
                                 notify(props.on_change, delivered,
                                        edit(current_value, c))
                            /\ UNCHANGED lock
                    /\ UNCHANGED crashed
    /\ UNCHANGED <<props, env, has_focus, tree, bound, dirty>>

\* EventType::Focus => cloned_has_focus.set(Focus(true))
Focus ==
    /\ running
    /\ on_event # None
    /\ dispatches_input(props)
    /\ has_focus' = TRUE
    /\ dirty' = TRUE
    /\ last' = [op |-> "Focus", c |-> 0]
    /\ UNCHANGED <<props, env, on_event, delivered, tree, crashed, lock, bound>>

\* EventType::Blur => cloned_has_focus.set(Focus(false))
Blur_keeps_focus ==
    /\ running
    /\ on_event # None
    /\ has_focus' = has_focus
    /\ dirty' = TRUE
    /\ last' = [op |-> "Blur", c |-> 0]
    /\ UNCHANGED <<props, env, on_event, delivered, tree, crashed, lock, bound>>

Blur ==
    /\ running
    /\ on_event # None
    /\ has_focus' = FALSE
    /\ dirty' = TRUE
    /\ last' = [op |-> "Blur", c |-> 0]
    /\ UNCHANGED <<props, env, on_event, delivered, tree, crashed, lock, bound>>

\* _ => {}
OtherEvent ==
    /\ running
    /\ on_event # None
    /\ last' = [op |-> "Other", c |-> 0]
    /\ UNCHANGED <<props, env, has_focus, on_event, delivered, tree, crashed,
                   lock, bound, dirty>>

\* ------------------------------------------------- the on_change RwLock
\* Another holder of the OnChange takes its lock.
LockedElsewhere ==
    /\ ~crashed
    /\ props.on_change # None
    /\ lock = "free"
    /\ lock' = "held"
    /\ last' = [op |-> "LockedElsewhere", c |-> 0]
    /\ UNCHANGED <<props, env, has_focus, on_event, delivered, tree, crashed,
                   bound, dirty>>

\* The other holder drops its guard while no handler waits for it.
UnlockedElsewhere ==
    /\ ~crashed
    /\ lock = "held"
    /\ lock' = "free"
    /\ last' = [op |-> "UnlockedElsewhere", c |-> 0]
    /\ UNCHANGED <<props, env, has_focus, on_event, delivered, tree, crashed,
                   bound, dirty>>

\* Lines 133-137: the other holder drops its guard, write() returns Ok and
\* the waiting handler calls on_change and returns.
WriteReturns ==
    /\ ~crashed
    /\ lock = "waiting"
    /\ lock' = "free"
    /\ delivered' = notify(props.on_change, delivered, current_value)
    /\ last' = [op |-> "WriteReturns", c |-> 0]
    /\ UNCHANGED <<props, env, has_focus, on_event, tree, crashed, bound, dirty>>

\* ------------------------------------------------------------ render pass
\* Line 150: parent_id.unwrap() panics on None.
render_panics(e) == e.parent_id = None

\* Lines 148-172: should_render after the layout probe.
should_render(e) ==
    /\ e.valid_parent # None
    /\ e.layout # None
    /\ e.font # None

displayed_without_placeholder(value, placeholder) == value

\* Lines 197-201: the content of the Text node.
displayed(value, placeholder) ==
    IF value = <<>>
    THEN IF placeholder # None THEN placeholder[1] ELSE value
    ELSE value

dimmed_only_focused(value, focus) == focus /\ value = <<>>

\* Line 176: whether text_styles carries the dimmed color.
dimmed(value, focus) == value = <<>> \/ (focus /\ value = <<>>)

caret_when_focused(focus, e) == focus

\* Line 216: the condition of the If around the caret element.
caret_condition(focus, e) == focus /\ should_render(e)

\* KayakFont::measure: the size of `text` laid out at `size` and
\* `line_height` within `bounds`.
measure(text, size, line_height, bounds) ==
    LET w == Len(chars(text)) * (size \div 2) IN
    <<IF w < bounds[1] THEN w ELSE bounds[1], line_height>>

layout_probe_zero_parent(e, value) ==
    IF e.valid_parent # None /\ e.layout # None /\ e.font # None
    THEN [layout_size |-> measure(value, 14, 22,
                                  <<e.layout[1].width, e.layout[1].height>>),
          parent_size |-> <<e.layout[1].width, e.layout[1].height>>]
    ELSE [layout_size |-> <<0, 0>>, parent_size |-> <<0, 0>>]

\* Lines 149-172: (layout_size, parent_size).
layout_probe(e, value) ==
    IF e.valid_parent # None
    THEN IF e.layout # None
         THEN IF e.font # None
              THEN [layout_size |-> measure(value, 14, 22,
                                     <<e.layout[1].width, e.layout[1].height>>),
                    parent_size |-> <<e.layout[1].width, e.layout[1].height>>]
              ELSE [layout_size |-> <<0, 0>>,
                    parent_size |-> <<e.layout[1].width, e.layout[1].height>>]
         ELSE [layout_size |-> <<0, 0>>, parent_size |-> <<0, 0>>]
    ELSE [layout_size |-> <<0, 0>>, parent_size |-> <<0, 0>>]

bound_assets_none(font_name) == {}

\* Lines 145-147: the pass binds the widget to the font asset.
bound_assets(font_name) == {font_name}

\* A binding the widget is subscribed to changes: its pass is scheduled.
notify_binding(scheduled, subscribed, asset) ==
    scheduled \/ asset \in subscribed

rsx_dim_by_content(p, focus, e) ==
    [content |-> displayed(p.value, p.placeholder),
     dim     |-> displayed(p.value, p.placeholder) = <<>>,
     caret   |-> caret_condition(focus, e)]

\* Lines 204-220: the tree the pass emits.
rsx(p, focus, e) ==
    [content |-> displayed(p.value, p.placeholder),
     dim     |-> dimmed(p.value, focus),
     caret   |-> caret_condition(focus, e)]

\* The `value` prop a pass can be handed: the one of the previous pass, or
\* the value of the latest ChangeEvent fed back by the owner of on_change.
NextValues ==
    {props.value} \cup
    (IF delivered # <<>> THEN {delivered[Len(delivered)].value} ELSE {})

\* One render pass of TextBox with `value` prop v and `disabled` prop d.
\* The tree records, with the nodes of rsx, the style the pass leaves in
\* props.styles and what the layout probe computed.
Render(v, d) ==
    /\ running
    /\ last' = [op |-> "Render", c |-> 0]
    /\ props' = [props EXCEPT !.value = v, !.disabled = d]
    /\ bound' = bound_assets("Roboto")
    /\ dirty' = FALSE
    /\ IF render_panics(env)
       THEN /\ crashed' = TRUE
            /\ UNCHANGED <<on_event, tree>>
       ELSE /\ on_event' = Some([current_value |-> v])
            /\ tree' = Some(rsx(props', has_focus, env)
                            @@ layout_probe(env, v)
                            @@ [should_render |-> should_render(env),
                                styles |-> styles_cascade(props.styles)])
            /\ UNCHANGED crashed
    /\ UNCHANGED <<env, has_focus, delivered, lock>>

\* ------------------------------------------------------------ environment
\* The font asset finishes loading.
FontLoaded ==
    /\ ~crashed
    /\ env.font = None
    /\ env' = [env EXCEPT !.font = Some("Roboto")]
    /\ dirty' = notify_binding(dirty, bound, "Roboto")
    /\ last' = [op |-> "FontLoaded", c |-> 0]
    /\ UNCHANGED <<props, has_focus, on_event, delivered, tree, crashed,
                   lock, bound>>

\* The layout solver produces the layout of the parent.
LayoutComputed ==
    /\ ~crashed
    /\ env.valid_parent # None
    /\ env.layout = None
    /\ env' = [env EXCEPT !.layout = Some(ParentLayout)]
    /\ last' = [op |-> "LayoutComputed", c |-> 0]
    /\ UNCHANGED <<props, has_focus, on_event, delivered, tree, crashed,
                   lock, bound, dirty>>

\* ---------------------------------------------------------- specification
\* The widget instance exists, with its props, before its first render pass.
Init ==
    /\ props \in PropsSet
    /\ env \in EnvSet
    /\ has_focus = FALSE
    /\ on_event = None
    /\ delivered = <<>>
    /\ tree = None
    /\ crashed = FALSE
    /\ last = [op |-> "Init", c |-> 0]
    /\ lock = "free"
    /\ bound = {}
    /\ dirty = TRUE

\* The UI scheduler alone: one event or one pass at a time, the on_change
\* lock taken only by the handler for the duration of the call.
Next ==
    \/ \E c \in CharSet : CharInput(c)
    \/ Focus
    \/ Blur
    \/ OtherEvent
    \/ \E v \in NextValues, d \in BOOLEAN : Render(v, d)
    \/ FontLoaded
    \/ LayoutComputed

Spec == Init /\ [][Next]_vars

\* The same, with another holder of the OnChange taking its lock.
NextLock ==
    \/ Next
    \/ LockedElsewhere
    \/ UnlockedElsewhere
    \/ WriteReturns

SpecLock == Init /\ [][NextLock]_vars

\* The prop surface: every caller style and `focusable`, parent laid out.
InitSurface ==
    /\ props \in SurfacePropsSet
    /\ env \in {e \in EnvSet : e.layout # None}
    /\ has_focus = FALSE
    /\ on_event = None
    /\ delivered = <<>>
    /\ tree = None
    /\ crashed = FALSE
    /\ last = [op |-> "Init", c |-> 0]
    /\ lock = "free"
    /\ bound = {}
    /\ dirty = TRUE

NextSurface ==
    \/ \E v \in NextValues, d \in BOOLEAN : Render(v, d)
    \/ Focus
    \/ Blur
    \/ FontLoaded

SpecSurface == InitSurface /\ [][NextSurface]_vars

\* A scheduled pass is eventually run by the framework.
ScheduledRender == dirty /\ \E v \in NextValues, d \in BOOLEAN : Render(v, d)

\* The widget without an on_change callback, under a fair scheduler.
InitLive == Init /\ props.on_change = None

SpecLive == InitLive /\ [][Next]_vars /\ WF_vars(ScheduledRender)

TypeOK ==
    /\ has_focus \in BOOLEAN
    /\ crashed \in BOOLEAN
    /\ Len(delivered) <= MaxEvents
    /\ on_event # None => Len(current_value) <= MaxLen
    /\ lock \in {"free", "held", "waiting"}
    /\ dirty \in BOOLEAN

\* ------------------------------------------------------------ properties
\* The step taken is a CharInput event that reaches a registered handler
\* while the widget is Focused.
FocusedCharInput ==
    /\ last'.op = "CharInput"
    /\ on_event # None
    /\ has_focus
    /\ ~crashed

Printable(c) == ~(c <= 31 \/ (c >= 127 /\ c <= 159))

Backspace(c) == c \in {BS, DEL}

AllButLast(s) == SubSeq(s, 1, Len(s) - 1)

\* C1: every printable CharInput received while Focused appends exactly that
\* character at the end of EditableValue, so a sequence c1..cn of them leaves
\* the value it started from followed by c1..cn in arrival order.
C1_OrderPreservingAppend ==
    [][(FocusedCharInput /\ Printable(last'.c))
        => /\ ~crashed'
           /\ chars(current_value') = Append(chars(current_value), last'.c)]_vars

C1_Witness ==
    /\ on_event # None
    /\ has_focus
    /\ last = [op |-> "CharInput", c |-> LatinEAcute]
    /\ chars(current_value) = <<LatinH, LatinEAcute>>

\* C2: a control character other than backspace received while Focused
\* changes neither EditableValue nor the ChangeEvents delivered to on_change.
C2_ControlCharIgnored ==
    [][(FocusedCharInput /\ ~Printable(last'.c) /\ ~Backspace(last'.c))
        => /\ on_event' = on_event
           /\ delivered' = delivered]_vars

\* C3: a backspace received while Focused on a non-empty EditableValue
\* removes exactly its last whole character, whatever the width of that
\* character's encoding, and the value stays valid text.
C3_BackspaceRemovesWholeChar ==
    [][(FocusedCharInput /\ Backspace(last'.c) /\ current_value # <<>>)
        => /\ ~crashed'
           /\ is_utf8(current_value')
           /\ chars(current_value') = AllButLast(chars(current_value))]_vars

\* C4: a CharInput received while Unfocused changes neither EditableValue
\* nor the ChangeEvents delivered to on_change.
C4_UnfocusedInputDropped ==
    [][(last'.op = "CharInput" /\ on_event # None /\ ~has_focus)
        => /\ on_event' = on_event
           /\ delivered' = delivered
           /\ ~crashed']_vars

C4_Witness ==
    /\ on_event # None
    /\ ~has_focus
    /\ last = [op |-> "CharInput", c |-> LatinH]
    /\ props.on_change # None
    /\ current_value = <<>>
    /\ delivered = <<>>

\* C5: every printable or backspace CharInput received while Focused
\* delivers exactly one ChangeEvent to the registered on_change, carrying
\* EditableValue as it is after the event, after all earlier ChangeEvents.
C5_OneChangeEventPerEdit ==
    [][(/\ FocusedCharInput
        /\ props.on_change # None
        /\ (Printable(last'.c) \/ Backspace(last'.c)))
        => /\ ~crashed'
           /\ delivered' = Append(delivered, [value |-> current_value'])]_vars

\* C6: a backspace received while Focused on an empty EditableValue leaves
\* it empty and delivers one ChangeEvent with the empty value, every time.
C6_BackspaceOnEmptyNotifies ==
    [][(/\ FocusedCharInput
        /\ props.on_change # None
        /\ Backspace(last'.c)
        /\ current_value = <<>>)
        => /\ ~crashed'
           /\ current_value' = <<>>
           /\ delivered' = Append(delivered, [value |-> <<>>])]_vars

C6_Witness ==
    /\ on_event # None
    /\ has_focus
    /\ last = [op |-> "CharInput", c |-> BS]
    /\ current_value = <<>>
    /\ delivered = <<[value |-> <<>>], [value |-> <<>>]>>

\* The latest render pass emitted the caret element.
CaretEmitted == tree # None /\ tree[1].caret

\* Parent id present, parent valid, parent layout present and font loaded.
MeasurementAvailable ==
    /\ env.parent_id # None
    /\ env.valid_parent # None
    /\ env.layout # None
    /\ env.font # None

\* C7: a render pass emits the caret element exactly when the widget is
\* Focused and the parent layout and the font are both available.
C7_CaretIffFocusedAndMeasured ==
    last.op = "Render" => (CaretEmitted <=> (has_focus /\ MeasurementAvailable))

C7_Witness ==
    /\ last.op = "Render"
    /\ has_focus
    /\ MeasurementAvailable
    /\ CaretEmitted

\* C8: a render pass whose `value` prop is unchanged leaves EditableValue
\* as the edit handler held it before the pass.
C8_RenderKeepsValue ==
    [][(/\ last'.op = "Render"
        /\ on_event # None
        /\ ~crashed'
        /\ props'.value = props.value)
        => current_value' = current_value]_vars

\* C9: after a render pass the Text node shows EditableValue if it is not
\* empty, else the placeholder, else the empty string, whatever the focus.
C9_DisplayedText ==
    (last.op = "Render" /\ ~crashed)
        => tree[1].content =
             IF current_value # <<>> THEN current_value
             ELSE IF props.placeholder # None THEN props.placeholder[1]
             ELSE <<>>

C9_Witness ==
    /\ last.op = "Render"
    /\ ~crashed
    /\ has_focus
    /\ current_value = <<>>
    /\ props.placeholder # None
    /\ tree[1].content = props.placeholder[1]

\* C10: FocusState starts Unfocused; a Focus event makes it Focused, a Blur
\* event makes it Unfocused, and every other operation leaves it as it was.
C10_FocusFollowsLastFocusBlur ==
    /\ ~has_focus
    /\ [][/\ last'.op = "Focus" => has_focus'
          /\ last'.op = "Blur" => ~has_focus'
          /\ last'.op \notin {"Focus", "Blur"} => has_focus' = has_focus]_vars

C10_Witness ==
    /\ last.op = "Blur"
    /\ ~has_focus
    /\ delivered # <<>>

\* The focusable flag the framework reads from the props.
ExposedFocusable == get_focusable(props)

\* C11: the focusable flag is the `focusable` prop when it is set, and
\* !disabled when it is not.
C11_FocusableFlag ==
    last.op = "Render"
        => ExposedFocusable =
             IF props.focusable # None THEN props.focusable
             ELSE Some(~props.disabled)

\* C12: an accepted edit that finds the on_change lock held elsewhere
\* completes without waiting: the edit is kept and its notification dropped.
C12_ContendedNotifyDropped ==
    [][(/\ FocusedCharInput
        /\ props.on_change # None
        /\ lock = "held"
        /\ (Printable(last'.c) \/ Backspace(last'.c))
        /\ ~crashed')
        => /\ lock' = "held"
           /\ delivered' = delivered]_vars

\* The style the latest pass left in props.styles.
EffectiveStyle == tree[1].styles

\* The value the caller's `styles` prop gives field f, "Unset" if none.
CallerStyle(f) == IF props.styles = None THEN "Unset" ELSE props.styles[1][f]

\* Field f of the effective style is the caller's if set, else `fallback`.
CallerElse(f, fallback) ==
    EffectiveStyle[f] =
        IF CallerStyle(f) # "Unset" THEN CallerStyle(f) ELSE fallback

\* C13 as claimed: render command, 26px height and text cursor hold for
\* every caller style; top and bottom are the caller's, else the default.
C13_RequiredLayerWins ==
    (last.op = "Render" /\ ~crashed)
        => /\ EffectiveStyle.render_command = "Layout"
           /\ EffectiveStyle.height = "Pixels(26)"
           /\ EffectiveStyle.cursor = "Text"
           /\ CallerElse("top", "Pixels(0)")
           /\ CallerElse("bottom", "Pixels(0)")

\* C13 amended: only the render command holds for every caller style; top,
\* bottom, height and cursor are the caller's when set, and otherwise
\* 0px, 0px, 26px and the text cursor.
C13_CallerBeatsFallbacks ==
    (last.op = "Render" /\ ~crashed)
        => /\ EffectiveStyle.render_command = "Layout"
           /\ CallerElse("top", "Pixels(0)")
           /\ CallerElse("bottom", "Pixels(0)")
           /\ CallerElse("height", "Pixels(26)")
           /\ CallerElse("cursor", "Text")

C13_Witness ==
    /\ last.op = "Render"
    /\ ~crashed
    /\ props.styles =
         Some([render_command |-> "Quad", top |-> "Unset",
               bottom |-> "Pixels(4)", height |-> "Pixels(50)",
               cursor |-> "Hand"])
    /\ EffectiveStyle =
         [render_command |-> "Layout", top |-> "Pixels(0)",
          bottom |-> "Pixels(4)", height |-> "Pixels(50)", cursor |-> "Hand"]

\* C14: no event and no render pass ends in a panic.
C14_NoFatalCondition == ~crashed

\* The (width, height) of the parent layout, when there is one.
ParentSize == <<env.layout[1].width, env.layout[1].height>>

\* C15: the probe of a pass yields zero sizes and no measurement without a
\* valid parent or its layout; the parent size, a zero text size and no
\* measurement without the font; and otherwise the parent size and the
\* measurement of EditableValue at size 14, line height 22.
C15_LayoutProbe ==
    (last.op = "Render" /\ ~crashed)
        => /\ (env.valid_parent = None \/ env.layout = None)
                => /\ ~tree[1].should_render
                   /\ tree[1].layout_size = <<0, 0>>
                   /\ tree[1].parent_size = <<0, 0>>
           /\ (env.valid_parent # None /\ env.layout # None /\ env.font = None)
                => /\ ~tree[1].should_render
                   /\ tree[1].layout_size = <<0, 0>>
                   /\ tree[1].parent_size = ParentSize
           /\ (env.valid_parent # None /\ env.layout # None /\ env.font # None)
                => /\ tree[1].should_render
                   /\ tree[1].layout_size =
                        measure(current_value, 14, 22, ParentSize)
                   /\ tree[1].parent_size = ParentSize

C15_Witness ==
    /\ last.op = "Render"
    /\ ~crashed
    /\ env.font = None
    /\ current_value = encode_utf8(LatinEAcute)
    /\ tree[1].layout_size = <<0, 0>>
    /\ tree[1].parent_size = <<100, 26>>

\* The font asset has just arrived, after a pass that ran without it.
LateFont == last.op = "FontLoaded" /\ tree # None

\* C16: when the font arrives after a pass, a pass is scheduled at once and,
\* unless a panic ends the program first, is run; that pass emits the caret
\* if the widget is Focused and the parent layout is available.
C16_LateFontSchedulesPass ==
    /\ [][(last'.op = "FontLoaded" /\ tree # None) => dirty']_vars
    /\ LateFont ~>
         (\/ crashed
          \/ /\ last.op = "Render"
             /\ (has_focus /\ env.layout # None) => CaretEmitted)

C16_Witness ==
    /\ LateFont
    /\ dirty
    /\ has_focus
    /\ env.layout # None
    /\ ~CaretEmitted

\* C17 as claimed: the text is dimmed exactly when the displayed text
\* (value, or placeholder for an empty value) is empty.
C17_DimIffDisplayedEmpty ==
    (last.op = "Render" /\ ~crashed)
        => (tree[1].dim <=> tree[1].content = <<>>)

\* C17 amended: the text is dimmed exactly when EditableValue is empty, that
\* is when the Text node shows the placeholder or the empty string.
C17_DimIffValueEmpty ==
    (last.op = "Render" /\ ~crashed)
        => (tree[1].dim <=> current_value = <<>>)

C17_Witness ==
    /\ last.op = "Render"
    /\ ~crashed
    /\ ~has_focus
    /\ current_value = <<>>
    /\ tree[1].content = <<112>>
    /\ tree[1].dim

\* C18: a pass dims the text exactly when the `value` it renders is empty,
\* and two passes of the same value give the same color whatever the focus
\* at each of them.
C18_ColorIndependentOfFocus ==
    [][(last'.op = "Render" /\ ~crashed')
        => /\ tree'[1].dim <=> props'.value = <<>>
           /\ (tree # None /\ props'.value = props.value)
                => tree'[1].dim = tree[1].dim]_vars

C18_Witness ==
    /\ last.op = "Render"
    /\ ~crashed
    /\ has_focus
    /\ tree[1].caret
    /\ tree[1].dim
    /\ props.placeholder = None

\* C19: while the `disabled` prop is true a CharInput changes neither
\* EditableValue nor the ChangeEvents delivered, whatever came before.
C19_DisabledBlocksInput ==
    [][(last'.op \in {"CharInput", "CharInputWithheld"} /\ props.disabled)
        => /\ on_event' = on_event
           /\ delivered' = delivered
           /\ ~crashed']_vars

C19_Witness ==
    /\ last = [op |-> "CharInputWithheld", c |-> LatinH]
    /\ props.disabled
    /\ props.on_change # None
    /\ has_focus
    /\ on_event # None

====
